---- MODULE Spec2Model ----
(***************************************************************************)
(* A model of src/src/mdp.rs of rust-chess-bot: the conversion of chess     *)
(* into a Markov decision process (feature encoding, reward, greedy         *)
(* policy, Bellman learner, self-play driver).                              *)
(*                                                                          *)
(* The rules engine (crate `chess`) and the function approximator (crate    *)
(* `neuroflow`) are libraries the program calls.  Their operations are      *)
(* modelled at the call sites:                                              *)
(*   - a BitBoard (a u64) is the set of its set bit indices 0..63, square   *)
(*     index = 8 * rank + file;                                             *)
(*   - a Board carries its piece and colour bitboards, the side to move,    *)
(*     the checkers bitboard and the list MoveGen::new_legal enumerates;    *)
(*   - the position a move leads to is chosen by the environment among the  *)
(*     boards of a bounded pool with the other side to move;                *)
(*   - f64 values are integers (every value the program computes from the   *)
(*     bounded inputs is an integer; gamma is given in tenths and scores    *)
(*     are multiples of 10).                                                *)
(***************************************************************************)
EXTENDS Integers, Sequences, FiniteSets, TLC

VARIABLES
    op,                 \* SpecEnc: the pure function applied ("none" before)
    in,                 \* SpecEnc: its arguments
    out,                \* SpecEnc: its result
    pc,                 \* SpecPlay / SpecLearn: position in the function's body
    game,               \* play_against_self: the Game (current position, draw flag)
    curr_experience,    \* play_against_self: the pending Experience
    experience_memory,  \* play_against_self: Vec<Experience>
    count,              \* play_against_self: the turn counter
    rand,               \* play_against_self: the draw of this turn, in tenths
    policy_network,     \* the primary approximator
    q_network,          \* learn_from_experience: the target approximator
    replay_memory,      \* learn_from_experience: the experiences not yet consumed
    fits,               \* the fit calls issued on policy_network, in order
    hist                \* play_against_self: what each mover did, in order

vars == <<op, in, out, pc, game, curr_experience, experience_memory, count,
          rand, policy_network, q_network, replay_memory, fits, hist>>

(***************************************************************************)
(* The board of the rules engine.                                           *)
(***************************************************************************)
NumSquares == 64
Squares == 0 .. (NumSquares - 1)

\* Piece types in the order get_state appends their blocks.
PieceOrder == <<"Pawn", "Bishop", "Knight", "Rook", "Queen", "King">>
PieceSet == {PieceOrder[k] : k \in 1 .. Len(PieceOrder)}
Colors == {"White", "Black"}

Other(color) == IF color = "White" THEN "Black" ELSE "White"

FileChars == <<"a", "b", "c", "d", "e", "f", "g", "h">>
RankChars == <<"1", "2", "3", "4", "5", "6", "7", "8">>
NumFiles == Len(FileChars)

\* The index k with seq[k] = c, or 0.
IndexOf(seq, c) ==
    IF \E k \in 1 .. Len(seq) : seq[k] = c
    THEN CHOOSE k \in 1 .. Len(seq) : seq[k] = c
    ELSE 0

\* BitBoard::reverse_colors is u64::swap_bytes: byte r (rank r) goes to byte 7 - r.
reverse_colors(bitboard) ==
    {(NumFiles - 1 - (s \div NumFiles)) * NumFiles + (s % NumFiles) : s \in bitboard}

\* BitBoard::to_string: "X " or ". " per bit 0..63, a newline after every 8th.
RowChars == 2 * NumFiles + 1
bitboard_to_string(bitboard) ==
    [k \in 1 .. (NumFiles * RowChars) |->
        LET row == (k - 1) \div RowChars
            col == (k - 1) % RowChars
        IN  IF col = RowChars - 1 THEN "\n"
            ELSE IF col % 2 = 1 THEN " "
            ELSE IF (row * NumFiles + col \div 2) \in bitboard THEN "X" ELSE "."]

\* str.replace(c, "")
replace_with_empty(str, c) == SelectSeq(str, LAMBDA x : x # c)

\* bitboard_to_vec with one cell too many.
bitboard_to_vec_long(bitboard) ==
    LET bitboard_str ==
            replace_with_empty(replace_with_empty(bitboard_to_string(bitboard), " "), "\n")
    IN  [i \in 1 .. (NumSquares + 1) |->
            IF i <= NumSquares /\ bitboard_str[i] = "X" THEN 1 ELSE 0]

bitboard_to_vec(bitboard) ==
    LET bitboard_str ==
            replace_with_empty(replace_with_empty(bitboard_to_string(bitboard), " "), "\n")
    IN  [i \in 1 .. NumSquares |-> IF bitboard_str[i] = "X" THEN 1 ELSE 0]

\* bitboard_color_piece with the flip forgotten.
bitboard_color_piece_noflip(b, piece, color, player_white) ==
    b.pieces[piece] \cap b.color_combined[color]

bitboard_color_piece(b, piece, color, player_white) ==
    LET bitboard_piece == b.pieces[piece]
        bitboard_color == b.color_combined[color]
    IN  IF player_white
        THEN bitboard_piece \cap bitboard_color
        ELSE reverse_colors(bitboard_piece \cap bitboard_color)

\* The six blocks of one colour, appended in PieceOrder.
RECURSIVE color_state(_, _, _, _)
color_state(b, color, player_white, k) ==
    IF k > Len(PieceOrder) THEN <<>>
    ELSE bitboard_to_vec(bitboard_color_piece(b, PieceOrder[k], color, player_white))
             \o color_state(b, color, player_white, k + 1)

get_state(b, player_white) ==
    LET white_state == color_state(b, "White", player_white, 1)
        black_state == color_state(b, "Black", player_white, 1)
    IN  IF player_white
        THEN white_state \o black_state
        ELSE black_state \o white_state

(***************************************************************************)
(* A function that may panic returns [ok |-> FALSE, val |-> <<>>].          *)
(***************************************************************************)
Ok(v) == [ok |-> TRUE, val |-> v]
Panic == [ok |-> FALSE, val |-> <<>>]

\* Square::from_str on a 2-character token: file a-h, then rank 1-8.
square_from_str(square_str) ==
    IF Len(square_str) < 2 THEN Panic
    ELSE IF IndexOf(FileChars, square_str[1]) = 0 THEN Panic
    ELSE IF IndexOf(RankChars, square_str[2]) = 0 THEN Panic
    ELSE Ok((IndexOf(RankChars, square_str[2]) - 1) * NumFiles
                + (IndexOf(FileChars, square_str[1]) - 1))

vec_from_board_square(square_str, player_white) ==
    LET sq == square_from_str(square_str)
    IN  IF ~sq.ok THEN Panic
        ELSE LET square_bitboard ==
                     IF player_white THEN {sq.val} ELSE reverse_colors({sq.val})
             IN  Ok(bitboard_to_vec(square_bitboard))

\* The promotion block of get_action.
promotion_vec(promote_str) ==
    IF promote_str = <<>> THEN <<0, 0, 0, 0>>
    ELSE IF promote_str = <<"b">> THEN <<1, 0, 0, 0>>
    ELSE IF promote_str = <<"n">> THEN <<0, 1, 0, 0>>
    ELSE IF promote_str = <<"r">> THEN <<0, 0, 1, 0>>
    ELSE <<0, 0, 0, 1>>

\* &uci_str[0..2] and &uci_str[2..4] panic when the string is shorter than 4.
get_action(uci_str, player_white) ==
    IF Len(uci_str) < 2 THEN Panic
    ELSE IF Len(uci_str) < 4 THEN Panic
    ELSE LET init_str == SubSeq(uci_str, 1, 2)
             final_str == SubSeq(uci_str, 3, 4)
             promote_str == IF Len(uci_str) > 4 THEN SubSeq(uci_str, 5, 5) ELSE <<>>
             init_pos == vec_from_board_square(init_str, player_white)
             final_pos == vec_from_board_square(final_str, player_white)
         IN  IF ~init_pos.ok THEN Panic
             ELSE IF ~final_pos.ok THEN Panic
             ELSE Ok(init_pos.val \o final_pos.val \o promotion_vec(promote_str))

(***************************************************************************)
(* Rewards.                                                                 *)
(***************************************************************************)
NumBlocks == 12
HalfBlocks == 6

\* block_weight with the queen worth 9.
block_weight_queen9(i) ==
    CASE i % HalfBlocks = 0 -> 1
      [] i % HalfBlocks \in {1, 2} -> 3
      [] i % HalfBlocks = 3 -> 5
      [] i % HalfBlocks = 4 -> 9
      [] OTHER -> 0

\* The match on i % 6 in point_difference.
block_weight(i) ==
    CASE i % HalfBlocks = 0 -> 1
      [] i % HalfBlocks \in {1, 2} -> 3
      [] i % HalfBlocks = 3 -> 5
      [] i % HalfBlocks = 4 -> 10
      [] OTHER -> 0

\* The inner loop of point_difference over the cells lo..hi (0-based) of block
\* i: what it adds to count (the additions are grouped by halves).
RECURSIVE pd_block(_, _, _, _)
pd_block(state, i, lo, hi) ==
    IF lo = hi
    THEN LET val == IF i < HalfBlocks THEN state[lo + 1] ELSE -state[lo + 1]
         IN  block_weight(i) * val
    ELSE LET mid == (lo + hi) \div 2
         IN  pd_block(state, i, lo, mid) + pd_block(state, i, mid + 1, hi)

RECURSIVE pd_loop(_, _, _)
pd_loop(state, i, cnt) ==
    IF i >= NumBlocks THEN cnt
    ELSE pd_loop(state, i + 1,
                 cnt + pd_block(state, i, i * NumSquares, (i + 1) * NumSquares - 1))

point_difference(state) == 2 * pd_loop(state, 0, 0)

\* Board::status: no legal move is checkmate when in check, stalemate otherwise.
board_status(b) ==
    IF Len(b.legal) = 0
    THEN IF b.checkers = {} THEN "Stalemate" ELSE "Checkmate"
    ELSE "Ongoing"

WinReward == 100

\* get_reward with the second player's signs exchanged.
get_reward_swapped(b, player_white) ==
    CASE board_status(b) = "Ongoing" -> 0
      [] board_status(b) = "Stalemate" -> 0
      [] board_status(b) = "Checkmate" ->
            IF player_white
            THEN IF b.side_to_move = "Black" THEN WinReward ELSE -WinReward
            ELSE IF b.side_to_move = "White" THEN -WinReward ELSE WinReward

get_reward(b, player_white) ==
    CASE board_status(b) = "Ongoing" -> 0
      [] board_status(b) = "Stalemate" -> 0
      [] board_status(b) = "Checkmate" ->
            IF player_white
            THEN IF b.side_to_move = "Black" THEN WinReward ELSE -WinReward
            ELSE IF b.side_to_move = "White" THEN WinReward ELSE -WinReward

(***************************************************************************)
(* Moves and the bounded pool of boards.                                    *)
(***************************************************************************)
\* Piece::to_string(Color::Black), the promotion suffix of a move.
piece_char(piece) ==
    CASE piece = "Pawn" -> "p"
      [] piece = "Knight" -> "n"
      [] piece = "Bishop" -> "b"
      [] piece = "Rook" -> "r"
      [] piece = "Queen" -> "q"
      [] OTHER -> "k"

\* Square::to_string: the file letter, then the rank digit.
square_to_string(sq) == <<FileChars[(sq % NumFiles) + 1], RankChars[(sq \div NumFiles) + 1]>>

\* ChessMove::to_string: source, destination, and the promotion piece if any.
chess_move_to_string(m) ==
    square_to_string(m.source) \o square_to_string(m.dest)
        \o (IF m.promotion = "None" THEN <<>> ELSE <<piece_char(m.promotion)>>)

Move(source, dest, promotion) == [source |-> source, dest |-> dest, promotion |-> promotion]

KingSquare == [White |-> 4, Black |-> 60]

\* A board with both kings on their home squares and the pieces `extras`
\* (a function from squares to <<colour, piece>>).
MkBoard(extras, stm, legal, checkers) ==
    [pieces |-> [p \in PieceSet |->
                    {s \in DOMAIN extras : extras[s][2] = p}
                        \cup (IF p = "King" THEN {KingSquare[c] : c \in Colors} ELSE {})],
     color_combined |-> [c \in Colors |->
                    {s \in DOMAIN extras : extras[s][1] = c} \cup {KingSquare[c]}],
     side_to_move |-> stm,
     checkers |-> checkers,
     legal |-> legal]

\* Squares the pool puts the other pieces on: b2, c4, g7.
SampleSquares == {9, 26, 54}
ExtraKinds == Colors \X (PieceSet \ {"King"})
MaxExtra == 2
Placements ==
    UNION {[S -> ExtraKinds] : S \in {T \in SUBSET SampleSquares : Cardinality(T) <= MaxExtra}}

\* The moves of the pool: b2b3, g7g8q, c4f5.
PoolMoves == {Move(9, 17, "None"), Move(54, 62, "Queen"), Move(26, 37, "None")}
MaxLegal == 2
\* The lists MoveGen may enumerate: the pool's moves, without repetition, in any order.
LegalLists ==
    UNION {{l \in [1 .. n -> PoolMoves] : \A i, j \in 1 .. n : i # j => l[i] # l[j]}
               : n \in 0 .. MaxLegal}

\* The placements of the game pool: a white queen up, and a black rook against a pawn.
PoolPlacements == {(26 :> <<"White", "Queen">>),
                   (9 :> <<"White", "Pawn">>) @@ (54 :> <<"Black", "Rook">>)}

\* The checking piece, when there is one, is on g7.
CheckerSets == {{}, {54}}

(***************************************************************************)
(* The function approximator.  FeedForward::calc is a function of the       *)
(* weights and of the input vector; the family modelled reads the input     *)
(* through a key (the sum of the indices of its set cells, modulo the       *)
(* number of keys) and holds one score per key.  FeedForward::fit moves     *)
(* the score of the input's key to the label.                               *)
(***************************************************************************)
NetKeys == {0, 1, 2}
NetScores == {0, 10}
Networks == [NetKeys -> NetScores]

RECURSIVE SumSet(_)
SumSet(S) ==
    IF S = {} THEN 0
    ELSE LET x == CHOOSE x \in S : TRUE IN x + SumSet(S \ {x})

input_key(sa) == SumSet({i \in 1 .. Len(sa) : sa[i] # 0}) % Cardinality(NetKeys)

calc(nn, sa) == nn[input_key(sa)]

fit(nn, sa, label) == [nn EXCEPT ![input_key(sa)] = label]

(***************************************************************************)
(* The policy and the learner.                                              *)
(***************************************************************************)
None == [some |-> FALSE]
Some(m) == [some |-> TRUE, val |-> m]

\* f64::NEG_INFINITY, and a finite f64.
NEG_INFINITY == [neg_inf |-> TRUE, v |-> 0]
Finite(x) == [neg_inf |-> FALSE, v |-> x]
\* score > high_score: the comparison with the tie-break lost.
score_gt(score, high_score) == high_score.neg_inf \/ score > high_score.v
\* score >= high_score in move_by_policy
policy_score_ge(score, high_score) == high_score.neg_inf \/ score >= high_score.v
\* score >= high_score in compute_q_max
q_score_ge(score, high_score) == high_score.neg_inf \/ score >= high_score.v

\* The loop of move_by_policy from the k-th legal move.
RECURSIVE policy_loop(_, _, _, _, _, _, _)
policy_loop(nn, state, legal_moves, player_white, k, high_score, best_move) ==
    IF k > Len(legal_moves) THEN best_move
    ELSE LET possible_move == legal_moves[k]
             action == get_action(chess_move_to_string(possible_move), player_white).val
             sa == state \o action
             score == calc(nn, sa)
         IN  IF policy_score_ge(score, high_score)
             THEN policy_loop(nn, state, legal_moves, player_white, k + 1,
                              Finite(score), Some(possible_move))
             ELSE policy_loop(nn, state, legal_moves, player_white, k + 1,
                              high_score, best_move)

move_by_policy(nn, b, player_white) ==
    LET legal_moves == b.legal
    IN  IF Len(legal_moves) = 0 THEN None
        ELSE policy_loop(nn, get_state(b, player_white), legal_moves, player_white,
                         1, NEG_INFINITY, None)

\* The moves make_random_move may return: nth(gen_range(0..=len - 1)).
make_random_move(b) ==
    LET legal_moves == b.legal
    IN  IF Len(legal_moves) = 0 THEN {None}
        ELSE {Some(legal_moves[n + 1]) : n \in 0 .. (Len(legal_moves) - 1)}

\* The loop of compute_q_max from the k-th legal move.
RECURSIVE q_max_loop(_, _, _, _, _, _)
q_max_loop(state, legal_moves, q_net, player_white, k, high_score) ==
    IF k > Len(legal_moves) THEN high_score.v
    ELSE LET a == get_action(chess_move_to_string(legal_moves[k]), player_white).val
             sa == state \o a
             score == calc(q_net, sa)
         IN  IF q_score_ge(score, high_score)
             THEN q_max_loop(state, legal_moves, q_net, player_white, k + 1, Finite(score))
             ELSE q_max_loop(state, legal_moves, q_net, player_white, k + 1, high_score)

\* compute_q_max scoring the bare state when there is no legal move.
compute_q_max_no_end(b, state, q_net, player_white) ==
    LET legal_moves == b.legal
    IN  IF Len(legal_moves) = 0 THEN calc(q_net, state)
        ELSE q_max_loop(state, legal_moves, q_net, player_white, 1, NEG_INFINITY)

compute_q_max(b, state, q_net, player_white) ==
    LET legal_moves == b.legal
    IN  IF Len(legal_moves) = 0 THEN 0
        ELSE q_max_loop(state, legal_moves, q_net, player_white, 1, NEG_INFINITY)

\* gamma is given in tenths.
GammaScale == 10
times_gamma(gamma, q) == (gamma * q) \div GammaScale

bellman_label(e, q_net, gamma, player_white) ==
    e.reward + times_gamma(gamma, compute_q_max(e.next_board, e.next_state, q_net, player_white))

\* The boards of the pool.
Boards ==
    {MkBoard(pl, stm, legal, ch) :
        pl \in PoolPlacements, stm \in Colors, legal \in LegalLists, ch \in CheckerSets}

(***************************************************************************)
(* SpecEnc: the pure functions, each applied once to arguments drawn from   *)
(* bounded sets.                                                            *)
(***************************************************************************)
\* Characters of the move tokens tried: a file that is also a promotion
\* letter, a rank, a promotion letter that is no file, a digit that is no rank.
UciChars == {"b", "7", "n", "9"}
MaxTokenLen == 6
Tokens == UNION {[1 .. n -> UciChars] : n \in 0 .. MaxTokenLen}

EncBoards == {MkBoard(pl, stm, <<>>, {}) : pl \in Placements, stm \in Colors}

EncInputs ==
    [fn : {"get_state", "point_difference"}, b : EncBoards, player_white : BOOLEAN]
        \cup [fn : {"get_action"}, uci_str : Tokens, player_white : BOOLEAN]
        \cup [fn : {"get_reward"}, b : Boards, player_white : BOOLEAN]
        \cup [fn : {"move_by_policy"}, nn : Networks, b : Boards, player_white : BOOLEAN]

\* Board::default(): the standard starting position, white to move.  The list
\* of its legal moves is cut to e2e4, g1f3.
StartBoard ==
    [pieces |-> [p \in PieceSet |->
                    CASE p = "Pawn" -> (8 .. 15) \cup (48 .. 55)
                      [] p = "Bishop" -> {2, 5, 58, 61}
                      [] p = "Knight" -> {1, 6, 57, 62}
                      [] p = "Rook" -> {0, 7, 56, 63}
                      [] p = "Queen" -> {3, 59}
                      [] p = "King" -> {4, 60}],
     color_combined |-> [c \in Colors |-> IF c = "White" THEN 0 .. 15 ELSE 48 .. 63],
     side_to_move |-> "White",
     checkers |-> {},
     legal |-> <<Move(12, 28, "None"), Move(6, 21, "None")>>]

\* The Experience play_against_self starts from.
NoExperience ==
    [state |-> <<>>, action |-> <<>>, reward |-> 0, next_state |-> <<>>,
     next_board |-> StartBoard]

\* The variables a specification does not use.
PlayIdle ==
    /\ game = <<>>
    /\ curr_experience = NoExperience
    /\ experience_memory = <<>>
    /\ count = 0
    /\ rand = 0
    /\ hist = <<>>
LearnIdle ==
    /\ q_network = <<>>
    /\ replay_memory = <<>>
    /\ fits = <<>>
PlayVars == <<game, curr_experience, experience_memory, count, rand, hist>>
LearnVars == <<q_network, replay_memory, fits>>

InitEnc ==
    /\ op = "none"
    /\ in \in EncInputs
    /\ out = <<>>
    /\ pc = "enc"
    /\ policy_network = <<>>
    /\ PlayIdle
    /\ LearnIdle

Apply(fn, result) ==
    /\ pc = "enc"
    /\ op = "none"
    /\ in.fn = fn
    /\ op' = fn
    /\ out' = result
    /\ UNCHANGED <<in, pc, policy_network, PlayVars, LearnVars>>

ApplyGetState == Apply("get_state", get_state(in.b, in.player_white))

ApplyGetAction == Apply("get_action", get_action(in.uci_str, in.player_white))

\* play_against_self, lines 449 and 462: point_difference(get_state(&board, ..)).
ApplyPointDifference ==
    Apply("point_difference", point_difference(get_state(in.b, in.player_white)))

ApplyGetReward == Apply("get_reward", get_reward(in.b, in.player_white))

ApplyMoveByPolicy == Apply("move_by_policy", move_by_policy(in.nn, in.b, in.player_white))

NextEnc ==
    \/ ApplyGetState
    \/ ApplyGetAction
    \/ ApplyPointDifference
    \/ ApplyGetReward
    \/ ApplyMoveByPolicy

SpecEnc == InitEnc /\ [][NextEnc]_vars


(***************************************************************************)
(* Spec: play_against_self.  The positions the rules engine may answer a    *)
(* move with are the boards of PlayBoards with the other side to move;      *)
(* whether a draw can be declared (a matter of the move history) is the     *)
(* engine's answer as well.  rand is in tenths.                             *)
(***************************************************************************)
QueenUp == (26 :> <<"White", "Queen">>)
RookForPawn == (9 :> <<"White", "Pawn">>) @@ (54 :> <<"Black", "Rook">>)

PlayBoards ==
    {MkBoard(QueenUp, "Black", <<>>, {26}),
     MkBoard(QueenUp, "Black", <<>>, {}),
     MkBoard(RookForPawn, "Black", <<Move(54, 46, "None"), Move(9, 1, "Knight")>>, {}),
     MkBoard(RookForPawn, "White", <<>>, {54}),
     MkBoard(RookForPawn, "White", <<>>, {}),
     MkBoard(QueenUp, "White", <<Move(9, 17, "None"), Move(54, 62, "Queen")>>, {})}

\* The draws tried: one inside each range and the two thresholds.
RandDraws == {1, 2, 5, 6}
PolicyThreshold == 5
KeepThreshold == 2
MaxCount == 2

\* The approximators a game is played with.
PlayNetworks == {[k \in NetKeys |-> 0], [k \in NetKeys |-> IF k = 0 THEN 10 ELSE 0]}

\* Game::result that never reports the end of the game.
game_result_none(g) == "None"

\* Game::result: Some exactly when the current position is checkmate or
\* stalemate (the driver never resigns, offers or declares a draw).
game_result(g) == IF board_status(g.board) = "Ongoing" THEN "None" ELSE "Some"

\* Game::make_move followed by Game::current_position: the games the engine
\* may be in after the move.  can_declare_draw is false once the game is over.
make_move(g, m) ==
    {[board |-> n, can_declare_draw |-> d] :
        n \in {x \in PlayBoards : x.side_to_move = Other(g.board.side_to_move)},
        d \in BOOLEAN} \ {x \in [board : PlayBoards, can_declare_draw : {TRUE}] :
                               board_status(x.board) # "Ongoing"}

Init ==
    /\ op = "none"
    /\ in = <<>>
    /\ out = <<>>
    /\ pc = "loop"
    /\ game = [board |-> StartBoard, can_declare_draw |-> FALSE]
    /\ curr_experience = NoExperience
    /\ experience_memory = <<>>
    /\ count = 1
    /\ rand = 0
    /\ hist = <<>>
    /\ policy_network \in PlayNetworks
    /\ LearnIdle

\* Lines 416-420: the game is over at the top of the loop.
LoopExit ==
    /\ pc = "loop"
    /\ game_result(game) = "Some"
    /\ pc' = "done"
    /\ UNCHANGED <<op, in, out, game, curr_experience, experience_memory, count, rand,
                   hist, policy_network, LearnVars>>

\* Whether the draw selects the policy's move.
by_policy(r) == r > PolicyThreshold

\* Lines 422-445: side A (white) moves, by policy or at random.
WhiteMove ==
    /\ pc = "loop"
    /\ count <= MaxCount
    /\ game_result(game) = "None"
    /\ LET board == game.board
           white_move_policy == move_by_policy(policy_network, board, TRUE)
       IN  \E white_move_random \in make_random_move(board), r \in RandDraws :
             LET selected == IF by_policy(r) THEN white_move_policy ELSE white_move_random
             IN  /\ rand' = r
                 /\ IF ~selected.some
                    THEN /\ pc' = "panic"
                         /\ UNCHANGED <<game, curr_experience, hist>>
                    ELSE /\ pc' = "after_white"
                         /\ game' \in make_move(game, selected.val)
                         /\ curr_experience' =
                                [curr_experience EXCEPT
                                    !.state = get_state(board, TRUE),
                                    !.action = get_action(chess_move_to_string(selected.val),
                                                          TRUE).val]
                         /\ hist' = Append(hist,
                                [mover |-> "A",
                                 by |-> IF by_policy(r) THEN "policy" ELSE "random",
                                 move |-> selected.val])
    /\ UNCHANGED <<op, in, out, experience_memory, count, policy_network, LearnVars>>

\* The pending Experience completed with a reward and the current position.
completed(e, reward, board) ==
    [e EXCEPT !.reward = reward,
              !.next_state = get_state(board, TRUE),
              !.next_board = board]

\* WhiteTerminal with the Experience kept only when the draw keeps it.
WhiteTerminal_gated ==
    /\ pc = "after_white"
    /\ game_result(game) = "Some"
    /\ curr_experience' = completed(curr_experience, get_reward(game.board, TRUE), game.board)
    /\ experience_memory' =
           IF rand < KeepThreshold
           THEN Append(experience_memory, curr_experience')
           ELSE experience_memory
    /\ pc' = "done"
    /\ UNCHANGED <<op, in, out, game, count, rand, hist, policy_network, LearnVars>>

\* Lines 447-458: the game ended with side A's move.
WhiteTerminal ==
    /\ pc = "after_white"
    /\ game_result(game) = "Some"
    /\ curr_experience' = completed(curr_experience, get_reward(game.board, TRUE), game.board)
    /\ experience_memory' = Append(experience_memory, curr_experience')
    /\ pc' = "done"
    /\ UNCHANGED <<op, in, out, game, count, rand, hist, policy_network, LearnVars>>

\* Lines 461-467: a draw can be declared after side A's move.
WhiteDraw ==
    /\ pc = "after_white"
    /\ game_result(game) = "None"
    /\ game.can_declare_draw
    /\ curr_experience' =
           completed(curr_experience, point_difference(get_state(game.board, TRUE)),
                     game.board)
    /\ experience_memory' = Append(experience_memory, curr_experience')
    /\ pc' = "done"
    /\ UNCHANGED <<op, in, out, game, count, rand, hist, policy_network, LearnVars>>

\* Whether the draw keeps the completed Experience.
keep(r) == r < KeepThreshold

\* BlackMove with side B's move drawn at random among its legal moves.
BlackMove_random ==
    /\ pc = "after_white"
    /\ game_result(game) = "None"
    /\ ~game.can_declare_draw
    /\ \E black_move_random \in make_random_move(game.board) :
          IF ~black_move_random.some
          THEN /\ pc' = "panic"
               /\ UNCHANGED <<game, curr_experience, hist>>
          ELSE /\ game' \in make_move(game, black_move_random.val)
               /\ curr_experience' =
                      completed(curr_experience, get_reward(game'.board, TRUE), game'.board)
               /\ hist' = Append(hist,
                      [mover |-> "B", by |-> "policy", move |-> black_move_random.val])
               /\ pc' = "keep"
    /\ UNCHANGED <<op, in, out, experience_memory, count, rand, policy_network, LearnVars>>

\* Lines 469-484: side B (black) moves by policy and the pending Experience is
\* completed.
BlackMove ==
    /\ pc = "after_white"
    /\ game_result(game) = "None"
    /\ ~game.can_declare_draw
    /\ LET black_move_policy == move_by_policy(policy_network, game.board, FALSE)
       IN  IF ~black_move_policy.some
           THEN /\ pc' = "panic"
                /\ UNCHANGED <<game, curr_experience, hist>>
           ELSE /\ game' \in make_move(game, black_move_policy.val)
                /\ curr_experience' =
                       completed(curr_experience, get_reward(game'.board, TRUE), game'.board)
                /\ hist' = Append(hist,
                       [mover |-> "B", by |-> "policy", move |-> black_move_policy.val])
                /\ pc' = "keep"
    /\ UNCHANGED <<op, in, out, experience_memory, count, rand, policy_network, LearnVars>>

\* Lines 486-492: the completed Experience is kept when the draw of the turn
\* is below 0.2, and the next turn begins.
KeepGate ==
    /\ pc = "keep"
    /\ experience_memory' =
           IF keep(rand)
           THEN Append(experience_memory, curr_experience)
           ELSE experience_memory
    /\ count' = count + 1
    /\ pc' = "loop"
    /\ UNCHANGED <<op, in, out, game, curr_experience, rand, hist, policy_network, LearnVars>>

Next ==
    \/ LoopExit
    \/ WhiteMove
    \/ WhiteTerminal
    \/ WhiteDraw
    \/ BlackMove
    \/ KeepGate

Spec == Init /\ [][Next]_vars

(***************************************************************************)
(* SpecLearn: learn_from_experience on a replay memory of Experiences as    *)
(* play_against_self builds them.                                           *)
(***************************************************************************)
MaxMemory == 2
Gammas == {5, 8, 10}

\* The Experience of move m on board b answered by board n with reward r.
MkExperience(b, m, r, n) ==
    [state |-> get_state(b, TRUE),
     action |-> get_action(chess_move_to_string(m), TRUE).val,
     reward |-> r,
     next_state |-> get_state(n, TRUE),
     next_board |-> n]

\* Experiences of the kinds play_against_self records: a pair completed by
\* side B's reply (the game going on, or lost by checkmate), a game ended by
\* side A's move (checkmate, stalemate), and a game ended by a declarable draw.
LearnExperiences ==
    {MkExperience(StartBoard, StartBoard.legal[1], get_reward(n, TRUE), n) :
        n \in {x \in PlayBoards : x.side_to_move = "Black" => Len(x.legal) = 0}
                \ {x \in PlayBoards : x.side_to_move = "White" /\ board_status(x) = "Stalemate"}}
        \cup {MkExperience(b, b.legal[2],
                           point_difference(get_state(n, TRUE)), n) :
                  b \in {x \in PlayBoards : x.side_to_move = "White" /\ Len(x.legal) > 1},
                  n \in {x \in PlayBoards : x.side_to_move = "Black" /\ Len(x.legal) > 0}}

\* in holds the arguments of the call; replay_memory is what the loop has left.
InitLearn ==
    /\ op = "none"
    /\ \E g \in Gammas, w \in BOOLEAN, q \in Networks,
          mem \in UNION {[1 .. n -> LearnExperiences] : n \in 0 .. MaxMemory} :
            /\ in = [gamma |-> g, player_white |-> w, q_network |-> q, replay_memory |-> mem]
            /\ q_network = q
            /\ replay_memory = mem
    /\ out = <<>>
    /\ pc = "for"
    /\ policy_network \in PlayNetworks
    /\ fits = <<>>
    /\ PlayIdle

\* LearnStep with the label computed from the approximator being fitted.
LearnStep_own_target ==
    /\ pc = "for"
    /\ replay_memory # <<>>
    /\ LET e == Head(replay_memory)
           sa == e.state \o e.action
           label == bellman_label(e, policy_network, in.gamma, in.player_white)
       IN  /\ policy_network' = fit(policy_network, sa, label)
           /\ fits' = Append(fits, [input |-> sa, label |-> label])
    /\ replay_memory' = Tail(replay_memory)
    /\ UNCHANGED <<op, in, out, pc, q_network, PlayVars>>

\* Lines 318-337: one iteration of the loop over replay_memory.
LearnStep ==
    /\ pc = "for"
    /\ replay_memory # <<>>
    /\ LET e == Head(replay_memory)
           sa == e.state \o e.action
           label == bellman_label(e, q_network, in.gamma, in.player_white)
       IN  /\ policy_network' = fit(policy_network, sa, label)
           /\ fits' = Append(fits, [input |-> sa, label |-> label])
    /\ replay_memory' = Tail(replay_memory)
    /\ UNCHANGED <<op, in, out, pc, q_network, PlayVars>>

\* Line 338: the loop is over.
LearnReturn ==
    /\ pc = "for"
    /\ replay_memory = <<>>
    /\ pc' = "returned"
    /\ UNCHANGED <<op, in, out, policy_network, q_network, replay_memory, fits, PlayVars>>

NextLearn ==
    \/ LearnStep
    \/ LearnReturn

SpecLearn == InitLearn /\ [][NextLearn]_vars

(***************************************************************************)
(* Properties of the pure functions, checked under SpecEnc.                 *)
(***************************************************************************)
MoverColor(player_white) == IF player_white THEN "White" ELSE "Black"

\* The score the approximator gives move m of board b.
MoveScore(nn, b, player_white, m) ==
    calc(nn, get_state(b, player_white)
                \o get_action(chess_move_to_string(m), player_white).val)

\* C5: move_by_policy returns None exactly when there is no legal move;
\* otherwise it returns the legal move of maximal score that is enumerated
\* last among the moves of that score.
C5_PolicyArgmaxLast ==
    op = "move_by_policy" =>
        LET legal == in.b.legal
            sc(k) == MoveScore(in.nn, in.b, in.player_white, legal[k])
        IN  /\ (out = None) <=> (Len(legal) = 0)
            /\ Len(legal) > 0 =>
                  \E k \in 1 .. Len(legal) :
                      /\ out = Some(legal[k])
                      /\ \A j \in 1 .. Len(legal) : sc(j) <= sc(k)
                      /\ \A j \in (k + 1) .. Len(legal) : sc(j) < sc(k)

\* C5 witness: two legal moves of equal, maximal score, and the later one returned.
C5_Witness ==
    /\ op = "move_by_policy"
    /\ Len(in.b.legal) = 2
    /\ MoveScore(in.nn, in.b, in.player_white, in.b.legal[1])
           = MoveScore(in.nn, in.b, in.player_white, in.b.legal[2])
    /\ out = Some(in.b.legal[2])

\* C6 as stated: the state vector has length exactly 908, every cell 0 or 1.
C6_Length908 ==
    op = "get_state" =>
        /\ Len(out) = 908
        /\ \A i \in 1 .. Len(out) : out[i] \in {0, 1}

\* C6 as amended: the state vector has length exactly 12 * 64 = 768, every
\* cell 0 or 1.
C6_StateShape ==
    op = "get_state" =>
        /\ Len(out) = NumBlocks * NumSquares
        /\ \A i \in 1 .. Len(out) : out[i] \in {0, 1}

\* C6 witness: a state vector of the second player with an occupied cell.
C6_Witness ==
    /\ op = "get_state"
    /\ ~in.player_white
    /\ \E i \in 1 .. Len(out) : out[i] = 1

\* The two candidate mirror maps: the rank mirror (file kept, rank r <-> 7 - r)
\* and the point mirror i <-> 63 - i.
RankMirror == [s \in Squares |-> s + NumFiles * (NumFiles - 1 - 2 * (s \div NumFiles))]
PointMirror == [s \in Squares |-> NumSquares - 1 - s]

\* Under mirror map M: the mover half of get_state(P, true) is the opponent
\* half of get_state(P, false) with each block reflected by M.
StateMirrored(b, M) ==
    LET t == get_state(b, TRUE)
        f == get_state(b, FALSE)
    IN  \A k \in 0 .. (HalfBlocks - 1) : \A s \in Squares :
            t[k * NumSquares + s + 1] = f[(HalfBlocks + k) * NumSquares + M[s] + 1]

\* Under mirror map M: the origin and destination blocks of the second
\* player's action are those of the first player's reflected by M.
ActionMirrored(uci_str, M) ==
    LET t == get_action(uci_str, TRUE)
        f == get_action(uci_str, FALSE)
    IN  /\ t.ok <=> f.ok
        /\ t.ok => \A k \in 0 .. 1 : \A s \in Squares :
               t.val[k * NumSquares + s + 1] = f.val[k * NumSquares + M[s] + 1]

\* C7 as stated: the halves and the action blocks are related by the mirror
\* map square i <-> square 63 - i.
C7_PointMirror ==
    /\ op = "get_state" => StateMirrored(in.b, PointMirror)
    /\ op = "get_action" => ActionMirrored(in.uci_str, PointMirror)

\* C7 as amended: the mover half of get_state(P, true) equals the opponent
\* half of get_state(P, false) with each block reflected through the rank
\* mirror (square 8r + f <-> square 8(7 - r) + f); the same map is applied to
\* the origin and destination blocks of get_action for the second player.
C7_RankMirror ==
    /\ op = "get_state" => StateMirrored(in.b, RankMirror)
    /\ op = "get_action" => ActionMirrored(in.uci_str, RankMirror)

\* C7 witness: the second player's state of a board with a piece on b2, a
\* square the two mirror maps send to different squares.
C7_Witness ==
    /\ op = "get_state"
    /\ ~in.player_white
    /\ \E p \in PieceSet : 9 \in in.b.pieces[p]
    /\ RankMirror[9] # PointMirror[9]

ValidSquareToken(t) ==
    /\ \E k \in 1 .. Len(FileChars) : FileChars[k] = t[1]
    /\ \E k \in 1 .. Len(RankChars) : RankChars[k] = t[2]
WellFormed(uci_str) ==
    /\ Len(uci_str) \in {4, 5}
    /\ ValidSquareToken(SubSeq(uci_str, 1, 2))
    /\ ValidSquareToken(SubSeq(uci_str, 3, 4))

\* C9: get_action fails for every malformed move token and returns a vector
\* only for well-formed tokens of 4 or 5 characters.
C9_MalformedFails ==
    op = "get_action" => (out.ok <=> WellFormed(in.uci_str))

\* The weighted material of one colour on a board.
PieceValue(p) ==
    CASE p = "Pawn" -> 1
      [] p = "Bishop" -> 3
      [] p = "Knight" -> 3
      [] p = "Rook" -> 5
      [] p = "Queen" -> 10
      [] p = "King" -> 0
Material(b, color) ==
    LET n(p) == Cardinality(b.pieces[p] \cap b.color_combined[color])
    IN  n("Pawn") * PieceValue("Pawn") + n("Bishop") * PieceValue("Bishop")
            + n("Knight") * PieceValue("Knight") + n("Rook") * PieceValue("Rook")
            + n("Queen") * PieceValue("Queen") + n("King") * PieceValue("King")

\* C10: point_difference(get_state(P, true)) = -point_difference(get_state(P,
\* false)), each twice the mover's weighted material minus the opponent's.
C10_PointDifference ==
    op = "point_difference" =>
        /\ out = 2 * (Material(in.b, MoverColor(in.player_white))
                          - Material(in.b, Other(MoverColor(in.player_white))))
        /\ out = -point_difference(get_state(in.b, ~in.player_white))

\* C10 witness: the second player is ahead in material.
C10_Witness ==
    /\ op = "point_difference"
    /\ ~in.player_white
    /\ out > 0

(***************************************************************************)
(* Properties of play_against_self, checked under Spec.                     *)
(***************************************************************************)
\* A turn pair has been completed: side A and then side B have moved, and the
\* completed Experience is at the gate.
PairCompleted ==
    /\ pc = "keep"
    /\ Len(hist) > 1
    /\ hist[Len(hist) - 1].mover = "A"
    /\ hist[Len(hist)].mover = "B"

\* C1: the gate that keeps a completed A->B transition is independent of the
\* gate that chooses side A's move: in particular, when side A's move of a
\* completed pair was chosen by the policy, the transition can be appended.
C1_PolicyMoveCanBeKept ==
    (PairCompleted /\ hist[Len(hist) - 1].by = "policy") =>
        ENABLED (KeepGate /\ Len(experience_memory') > Len(experience_memory))

\* The Experience the driver records when the game ends with side A's move.
FinalExperience ==
    [state |-> curr_experience.state,
     action |-> curr_experience.action,
     reward |-> IF game_result(game) = "Some"
                THEN get_reward(game.board, TRUE)
                ELSE point_difference(get_state(game.board, TRUE)),
     next_state |-> get_state(game.board, TRUE),
     next_board |-> game.board]

\* C2: after side A's move, if the position is terminal the pending
\* transition is completed with get_reward and appended whatever the draw, and
\* the game ends; otherwise, if a draw can be declared, it is completed with
\* point_difference instead, appended whatever the draw, and the game ends.
\* No side-B move and no further append follows.
C2_EndAfterWhite ==
    /\ [][(pc = "after_white" /\ (game_result(game) = "Some" \/ game.can_declare_draw)) =>
            /\ pc' = "done"
            /\ experience_memory' = Append(experience_memory, FinalExperience)
            /\ game' = game
            /\ hist' = hist]_vars
    /\ [][pc = "done" => pc' = "done" /\ UNCHANGED <<game, hist, experience_memory>>]_vars

\* C2 witness: a game ended by a declarable draw after side A's move, the
\* transition recorded with the material reward although the draw of the turn
\* keeps nothing.
C2_Witness ==
    /\ pc = "done"
    /\ ~keep(rand)
    /\ game_result(game) = "None"
    /\ Len(hist) > 1
    /\ hist[Len(hist)].mover = "A"
    /\ experience_memory # <<>>
    /\ experience_memory[Len(experience_memory)].next_board = game.board
    /\ experience_memory[Len(experience_memory)].reward
           = point_difference(get_state(game.board, TRUE))
    /\ experience_memory[Len(experience_memory)].reward # 0

(***************************************************************************)
(* Properties of learn_from_experience, checked under SpecLearn.            *)
(***************************************************************************)
\* The greatest element of a set of numbers, 0 for the empty set.
MaxOrZero(S) == IF S = {} THEN 0 ELSE CHOOSE x \in S : \A y \in S : y <= x

\* The scores the target approximator q gives the legal moves of e.next_board.
NextScores(e, q, player_white) ==
    {calc(q, e.next_state \o get_action(chess_move_to_string(e.next_board.legal[k]),
                                        player_white).val) :
        k \in 1 .. Len(e.next_board.legal)}

\* C3: the label fitted for a transition whose next_position has no legal
\* move is exactly the transition's reward.
C3_TerminalLabel ==
    \A i \in 1 .. Len(fits) :
        Len(in.replay_memory[i].next_board.legal) = 0 =>
            fits[i].label = in.replay_memory[i].reward

\* C3 witness: a won game's last transition fitted to exactly 100 with a
\* target approximator that scores its state above 0.
C3_Witness ==
    /\ pc = "returned"
    /\ \E i \in 1 .. Len(fits) :
          /\ Len(in.replay_memory[i].next_board.legal) = 0
          /\ in.replay_memory[i].reward = 100
          /\ fits[i].label = 100
          /\ calc(q_network, in.replay_memory[i].next_state) > 0

\* C4: n transitions give exactly n fit calls on the primary approximator,
\* the i-th on state_i || action_i toward reward_i + gamma * (the maximal score
\* the target approximator, as it was passed, gives a legal move of
\* next_position_i, or 0); the target approximator is never fitted.
C4_FitsInOrder ==
    /\ Len(fits) + Len(replay_memory) = Len(in.replay_memory)
    /\ pc = "returned" => Len(fits) = Len(in.replay_memory)
    /\ q_network = in.q_network
    /\ \A i \in 1 .. Len(fits) :
          LET e == in.replay_memory[i]
          IN  /\ fits[i].input = e.state \o e.action
              /\ GammaScale * fits[i].label
                     = GammaScale * e.reward
                         + in.gamma * MaxOrZero(NextScores(e, in.q_network, in.player_white))

\* C4 witness: two transitions fitted in order, the second toward a label with
\* a continuation value, by a primary approximator that differs from the target.
C4_Witness ==
    /\ pc = "returned"
    /\ Len(fits) = 2
    /\ Len(in.replay_memory[2].next_board.legal) > 1
    /\ fits[2].label # in.replay_memory[2].reward
    /\ policy_network # q_network

(***************************************************************************)
(* Properties of the movers of play_against_self, checked under Spec.       *)
(***************************************************************************)
\* The mover of the k-th move of a game: side A moves first.
MoverAt(k) == IF k % 2 = 1 THEN "A" ELSE "B"

\* The colour side A and side B play.
SideColor(mover) == IF mover = "A" THEN "White" ELSE "Black"

\* The moves made so far alternate A, B, A, B, ..., and the side to move of
\* the current position is the next mover's.
Alternating ==
    /\ \A k \in 1 .. Len(hist) : hist[k].mover = MoverAt(k)
    /\ pc \in {"loop", "after_white", "keep"} =>
           game.board.side_to_move = SideColor(MoverAt(Len(hist) + 1))
    /\ hist = <<>> => game.board = StartBoard

\* The step makes side A's move: the policy's move when the draw of the turn
\* is above 0.5, one of the legal moves otherwise.
SideAMoves ==
    /\ pc = "loop"
    /\ \E m \in {game.board.legal[k] : k \in 1 .. Len(game.board.legal)} :
          /\ hist' = Append(hist,
                 [mover |-> "A",
                  by |-> IF rand' > PolicyThreshold THEN "policy" ELSE "random",
                  move |-> m])
          /\ rand' > PolicyThreshold =>
                 Some(m) = move_by_policy(policy_network, game.board, TRUE)

\* The step makes side B's move: the policy's move, the draw untouched.
SideBMoves ==
    /\ pc = "after_white"
    /\ rand' = rand
    /\ hist' = Append(hist,
           [mover |-> "B", by |-> "policy",
            move |-> move_by_policy(policy_network, game.board, FALSE).val])

\* C11: within one game the movers alternate A, B, A, B, ... from the
\* starting position; every side-B move is the move move_by_policy returns for
\* side B; side A's move is the policy's move when the draw r of the turn is
\* above 0.5 and a legal move otherwise; r is drawn in side A's step only.
C11_MoversAlternate ==
    /\ []Alternating
    /\ [][game' # game => (SideAMoves \/ SideBMoves)]_vars
    /\ [][hist' # hist => game' # game]_vars
    /\ [][rand' # rand => (pc = "loop" /\ hist' # hist)]_vars

\* C11 witness: side A moved at random with a move the policy would not have
\* chosen, side B replied, and side A then moved by policy.
C11_Witness ==
    /\ Len(hist) > 2
    /\ hist[1].by = "random"
    /\ Some(hist[1].move) # move_by_policy(policy_network, StartBoard, TRUE)
    /\ hist[2].mover = "B"
    /\ hist[3].mover = "A"
    /\ hist[3].by = "policy"

(***************************************************************************)
(* Properties of the recorder play_against_self returns, checked under Spec.*)
(***************************************************************************)
\* The game is over and experience_memory is what the driver returns.
Returned == pc = "done"

\* The game ended with side A's move (the last move made is side A's).
EndedAfterA == Returned /\ Len(hist) % 2 = 1

\* The last Experience of the recorder.
LastExperience == experience_memory[Len(experience_memory)]

\* C12: every transition of the returned recorder has a next_position that
\* has no legal move or has side A (white) to move; in particular the Bellman
\* label of the last transition of a game that ended after side A's move
\* equals its reward, whatever the target approximator and the discount.
C12_NextPositionIsSideA ==
    Returned =>
        /\ \A i \in 1 .. Len(experience_memory) :
               \/ Len(experience_memory[i].next_board.legal) = 0
               \/ experience_memory[i].next_board.side_to_move = "White"
        /\ EndedAfterA =>
               \A q \in Networks, g \in Gammas :
                   bellman_label(LastExperience, q, g, TRUE) = LastExperience.reward

\* The game ended with side B's move (checkmate or stalemate found at the
\* head of the loop).
EndedAfterB == Returned /\ Len(hist) > 0 /\ Len(hist) % 2 = 0

\* C13: when a game ends, the returned recorder is non-empty and the
\* next_position of its last transition is the final position of the game; in
\* particular a game that ends right after side B's move has its final
\* transition, with the reward of the final position, recorded.
C13_FinalTransitionRecorded ==
    Returned =>
        /\ experience_memory # <<>>
        /\ LastExperience.next_board = game.board
        /\ EndedAfterB =>
               /\ LastExperience = curr_experience
               /\ LastExperience.reward = get_reward(game.board, TRUE)

(***************************************************************************)
(* The fatal path of play_against_self, checked under Spec.                 *)
(***************************************************************************)
\* The driver is about to select a move for side A, or for side B.
SelectsForA == pc = "loop" /\ game_result(game) = "None"
SelectsForB == pc = "after_white" /\ game_result(game) = "None" /\ ~game.can_declare_draw

\* C14: whenever the driver selects a move for side A or side B the current
\* position has a legal move, so the policy's move and the random move are
\* not None and neither panic is reached.
C14_NoPanic ==
    /\ pc # "panic"
    /\ SelectsForA =>
           /\ Len(game.board.legal) > 0
           /\ move_by_policy(policy_network, game.board, TRUE) # None
           /\ None \notin make_random_move(game.board)
    /\ SelectsForB =>
           /\ Len(game.board.legal) > 0
           /\ move_by_policy(policy_network, game.board, FALSE) # None

\* C14 witness: a game in which both sides selected moves twice and which
\* side B then ended by checkmate, the driver leaving at the head of the loop
\* with no move selected on the final position.
C14_Witness ==
    /\ Returned
    /\ Len(hist) > 3
    /\ Len(hist) % 2 = 0
    /\ Len(game.board.legal) = 0
    /\ board_status(game.board) = "Checkmate"

====
